---- MODULE Spec2Model ----
(***************************************************************************)
(* Model of src/lib.rs: Clonable<T>, a cloneable wrapper around a          *)
(* non-Clone Iterator.  Every handle (Clonable) owns an mpsc receiver and  *)
(* shares, through Arc<Mutex<..>>, one ClonableIteratorOwner holding the   *)
(* wrapped iterator and a Bus of mpsc senders keyed by Symbol.             *)
(*                                                                         *)
(* Each handle is driven by its own thread; pc[h] is that thread's         *)
(* position inside next(), clone() or drop().                              *)
(***************************************************************************)
EXTENDS Integers, Sequences, FiniteSets, TLC

\* ---------------------------------------------------------------- bounds
\* longest wrapped iterator, handles ever created, inner.next() calls
MaxN == 2
MaxHandles == 3
MaxPolls == 4
\* threads calling Symbol::new() concurrently
NumCallers == 3

\* ------------------------------------------------- program constants
\* [u128;16], reduced to NumLimbs limbs of values 0..LimbMax
NumLimbs == 2
LimbMax == 7

\* the None of Option<T::Item>, as returned by Iterator::next
End == 0
\* a call that unwound with a panic instead of returning
Panicked == -1
Callers == 1..NumCallers
Handles == 1..MaxHandles
NoHandle == 0
Limbs == 1..NumLimbs
SymbolSet == [Limbs -> 0..LimbMax]
ZeroCounter == [p \in Limbs |-> 0]

VARIABLES
    gen,        \* the items the wrapped iterator yields, in order (fixed at wrap);
                \* T::Item is opaque to the code, so item i is named i
    taken,      \* how many of them inner.next() has yielded so far
    counter,    \* GLOBAL_SYMBOL_COUNTER
    senders,    \* Bus.senders: Symbol -> channel (NoHandle: no entry)
    chan,       \* the mpsc buffer of each handle's channel
    id,         \* BusReceiver.id of each handle
    created,    \* number of channels/handles allocated so far
    strong,     \* strong count of the Arc
    ownerAlive, \* the Mutex<ClonableIteratorOwner> has not been dropped
    lock,       \* holder of the owner Mutex, or NoHandle
    pc,         \* position of each handle's thread
    val,        \* the Some(val) produce() holds between inner.next() and broadcast
    stored,     \* stored_items of a running branch_off
    newrx,      \* the receiver a running clone() has created for the new handle
    out,        \* history: what each next() call of a handle returned
    broadcasts, \* history: the values handed to Bus::broadcast, in order
    polls,      \* history: number of inner.next() calls
    exhausted,  \* history: inner.next() has returned None at least once
    errors,     \* history: the Vec of send errors of the latest broadcast
    start,      \* history: generator position at which a handle started
    parent,     \* history: the handle a handle was cloned from
    forkAt,     \* history: number of elements the parent had yielded at the clone
    forkBacklog, \* history: the parent's unread backlog at the clone
    callPoll,   \* history: what inner.next() returned inside the running next() call
    poisoned,   \* the owner Mutex is poisoned (a thread panicked holding it)
    clonePanicked, \* history: a clone() call of the handle has panicked
    symPc,      \* position of each thread calling Symbol::new()
    symLock,    \* holder of the GLOBAL_SYMBOL_COUNTER Mutex, or 0
    symPoisoned, \* the GLOBAL_SYMBOL_COUNTER Mutex is poisoned
    issued      \* history: the Symbols returned by Symbol::new(), in order

vars == <<gen, taken, counter, senders, chan, id, created, strong, ownerAlive,
          lock, pc, val, stored, newrx, out, broadcasts, polls, exhausted,
          errors, start, parent, forkAt, forkBacklog, callPoll, poisoned,
          clonePanicked, symPc, symLock, symPoisoned, issued>>

\* ------------------------------------------------------------- helpers
ElemsOf(s) == SelectSeq(s, LAMBDA x : x # End /\ x # Panicked)

\* handles whose Clonable value exists (constructed and not dropped)
Live == {h \in Handles : pc[h] \notin {"none", "building", "dead"}}
\* channels whose Receiver has not been dropped
RxAlive == {h \in Handles : pc[h] \notin {"none", "dead"}}

\* ------------------------------------------------------ symbol::Symbol
RECURSIVE CarryLoop(_, _, _)
\* the `while let Some(pos) = add_to_position` loop (positions are 1-based here)
CarryLoop(ctr, outp, pos) ==
    IF pos > NumLimbs
    THEN [ctr |-> ctr, out |-> outp, last |-> pos, panic |-> TRUE]
    ELSE IF ctr[pos] = LimbMax
         THEN CarryLoop([ctr EXCEPT ![pos] = 0], [outp EXCEPT ![pos] = ctr[pos]], pos + 1)
         ELSE [ctr |-> [ctr EXCEPT ![pos] = ctr[pos] + 1],
               out |-> [outp EXCEPT ![pos] = ctr[pos]],
               last |-> pos, panic |-> FALSE]

\* CounterStruct::get_and_add_one: the carry loop, then the trailing for loop
\* over the positions after the last one fetched.  panic: the carry ran past
\* the last limb (index out of bounds); overflow: a `+= 1` of the for loop
\* overflowed, which panics with overflow checks on and wraps without
get_and_add_one(ctr) ==
    LET w == CarryLoop(ctr, ZeroCounter, 1)
    IN  [ctr   |-> [p \in Limbs |-> IF p > w.last
                                     THEN (w.ctr[p] + 1) % (LimbMax + 1)
                                     ELSE w.ctr[p]],
         out   |-> [p \in Limbs |-> IF p > w.last THEN w.ctr[p] ELSE w.out[p]],
         panic |-> w.panic,
         overflow |-> \E p \in Limbs : p > w.last /\ w.ctr[p] = LimbMax]

\* ------------------------------------------------------------ bus::Bus
RECURSIVE BroadcastLoopAbort(_, _, _, _)
\* variant: the loop returns at the first failed send
BroadcastLoopAbort(keys, ch, errs, v) ==
    IF keys = {}
    THEN [chan |-> ch, errors |-> errs]
    ELSE LET k == CHOOSE x \in keys : TRUE
             c == senders[k]
         IN  IF c \in RxAlive
             THEN BroadcastLoopAbort(keys \ {k}, [ch EXCEPT ![c] = Append(@, v)], errs, v)
             ELSE [chan |-> ch, errors |-> Append(errs, v)]

RECURSIVE BroadcastLoop(_, _, _, _)
\* Bus::broadcast visits every sender once; a send to a channel whose
\* receiver was dropped fails and is pushed to `errors`, the loop goes on
BroadcastLoop(keys, ch, errs, v) ==
    IF keys = {}
    THEN [chan |-> ch, errors |-> errs]
    ELSE LET k == CHOOSE x \in keys : TRUE
             c == senders[k]
         IN  IF c \in RxAlive
             THEN BroadcastLoop(keys \ {k}, [ch EXCEPT ![c] = Append(@, v)], errs, v)
             ELSE BroadcastLoop(keys \ {k}, ch, Append(errs, v), v)

broadcast(ch, v) ==
    BroadcastLoop({k \in SymbolSet : senders[k] # NoHandle}, ch, <<>>, v)

\* ---------------------------------------------------------------- Init
\* the state right after `iter.clonable()`: Clonable::new has run add_rx
InitRest ==
    /\ taken = 0
    /\ counter = get_and_add_one(ZeroCounter).ctr
    /\ senders = [k \in SymbolSet |->
                    IF k = get_and_add_one(ZeroCounter).out THEN 1 ELSE NoHandle]
    /\ chan = [h \in Handles |-> <<>>]
    /\ id = [h \in Handles |-> IF h = 1 THEN get_and_add_one(ZeroCounter).out
                                        ELSE ZeroCounter]
    /\ created = 1
    /\ strong = 1
    /\ ownerAlive = TRUE
    /\ lock = NoHandle
    /\ pc = [h \in Handles |-> IF h = 1 THEN "idle" ELSE "none"]
    /\ val = [h \in Handles |-> End]
    /\ stored = [h \in Handles |-> <<>>]
    /\ newrx = [h \in Handles |-> NoHandle]
    /\ out = [h \in Handles |-> <<>>]
    /\ broadcasts = <<>>
    /\ polls = 0
    /\ exhausted = FALSE
    /\ errors = <<>>
    /\ start = [h \in Handles |-> 0]
    /\ parent = [h \in Handles |-> NoHandle]
    /\ forkAt = [h \in Handles |-> 0]
    /\ forkBacklog = [h \in Handles |-> <<>>]
    /\ callPoll = [h \in Handles |-> <<>>]
    /\ poisoned = FALSE
    /\ clonePanicked = [h \in Handles |-> FALSE]
    /\ symPc = [c \in Callers |-> "idle"]
    /\ symLock = 0
    /\ symPoisoned = FALSE
    /\ issued = <<get_and_add_one(ZeroCounter).out>>

\* a fused iterator of n items: n times Some, then None for ever
Init ==
    /\ gen \in {[i \in 1..n |-> i] : n \in 0..MaxN}
    /\ InitRest

hist == <<broadcasts, polls, exhausted, errors, start, parent, forkAt, forkBacklog>>
symg == <<symPc, symLock, symPoisoned, issued>>
pois == <<poisoned, clonePanicked>>
symv == <<counter, senders, id, created>>
arcv == <<strong, ownerAlive>>
locals == <<val, stored, newrx>>

\* ------------------------------------------------------ Clonable::next
\* next() calls that have missed their queue and not yet polled the iterator
PendingPolls == Cardinality({h \in Handles : pc[h] \in {"n_lock", "n_poll"}})

\* calls that ended with a panic, over all handles
PanicCount ==
    Cardinality(UNION {{<<h, i>> : i \in {j \in 1..Len(out[h]) : out[h][j] = Panicked}} :
                          h \in Handles})

\* variant: a handle whose last call returned None answers None at once
NextTryLatched(h) ==
    /\ pc[h] = "idle"
    /\ (chan[h] # <<>> \/ polls + PendingPolls + PanicCount < MaxPolls)
    /\ IF out[h] # <<>> /\ out[h][Len(out[h])] = End
       THEN /\ out' = [out EXCEPT ![h] = Append(@, End)]
            /\ UNCHANGED <<pc, chan>>
       ELSE IF chan[h] # <<>>
       THEN /\ out' = [out EXCEPT ![h] = Append(@, Head(chan[h]))]
            /\ chan' = [chan EXCEPT ![h] = Tail(@)]
            /\ pc' = pc
       ELSE /\ pc' = [pc EXCEPT ![h] = "n_lock"]
            /\ UNCHANGED <<out, chan>>
    /\ UNCHANGED <<gen, taken, symv, arcv, lock, locals, hist>>
    /\ UNCHANGED <<callPoll, pois, symg>>

\* variant: next() goes to produce() first, whatever its queue holds
NextTryAlwaysProduce(h) ==
    /\ pc[h] = "idle"
    /\ polls + PendingPolls + PanicCount < MaxPolls
    /\ pc' = [pc EXCEPT ![h] = "n_lock"]
    /\ UNCHANGED <<out, chan>>
    /\ UNCHANGED <<gen, taken, symv, arcv, lock, locals, hist>>
    /\ UNCHANGED <<callPoll, pois, symg>>

\* the first self.receiver.try_recv()
NextTry(h) ==
    /\ pc[h] = "idle"
    /\ (chan[h] # <<>> \/ polls + PendingPolls + PanicCount < MaxPolls)
    /\ IF chan[h] # <<>>
       THEN /\ out' = [out EXCEPT ![h] = Append(@, Head(chan[h]))]
            /\ chan' = [chan EXCEPT ![h] = Tail(@)]
            /\ pc' = pc
       ELSE /\ pc' = [pc EXCEPT ![h] = "n_lock"]
            /\ UNCHANGED <<out, chan>>
    /\ UNCHANGED <<gen, taken, symv, arcv, lock, locals, hist>>
    /\ UNCHANGED <<callPoll, pois, symg>>

\* variant: next() enters produce() without waiting for the Mutex
NextLockNoWait(h) ==
    /\ pc[h] = "n_lock"
    /\ lock' = h
    /\ pc' = [pc EXCEPT ![h] = "n_poll"]
    /\ UNCHANGED <<gen, taken, symv, arcv, chan, locals, out, hist>>
    /\ UNCHANGED <<callPoll, pois, symg>>

\* variant: next() takes the guard out of the PoisonError and goes on
NextLockIgnorePoison(h) ==
    /\ pc[h] = "n_lock"
    /\ lock = NoHandle
    /\ lock' = h
    /\ pc' = [pc EXCEPT ![h] = "n_poll"]
    /\ UNCHANGED <<gen, taken, symv, arcv, chan, locals, out, hist>>
    /\ UNCHANGED <<callPoll, pois, symg>>

\* self.owner.lock().unwrap(): blocks while another thread holds the Mutex;
\* on a poisoned Mutex lock() is an Err and unwrap() panics
NextLock(h) ==
    /\ pc[h] = "n_lock"
    /\ lock = NoHandle
    /\ IF poisoned
       THEN /\ out' = [out EXCEPT ![h] = Append(@, Panicked)]
            /\ pc' = [pc EXCEPT ![h] = "idle"]
            /\ lock' = lock
       ELSE /\ lock' = h
            /\ pc' = [pc EXCEPT ![h] = "n_poll"]
            /\ out' = out
    /\ UNCHANGED <<gen, taken, symv, arcv, chan, locals, hist>>
    /\ UNCHANGED <<callPoll, pois, symg>>

\* variant: on None produce() broadcasts the last item again
NextPollRebroadcast(h) ==
    /\ pc[h] = "n_poll"
    /\ polls' = polls + 1
    /\ IF taken < Len(gen)
       THEN /\ taken' = taken + 1
            /\ val' = [val EXCEPT ![h] = gen[taken + 1]]
            /\ pc' = [pc EXCEPT ![h] = "n_bcast"]
            /\ UNCHANGED <<lock, exhausted>>
       ELSE /\ exhausted' = TRUE
            /\ IF taken > 0
               THEN /\ val' = [val EXCEPT ![h] = gen[taken]]
                    /\ pc' = [pc EXCEPT ![h] = "n_bcast"]
                    /\ lock' = lock
               ELSE /\ val' = val
                    /\ pc' = [pc EXCEPT ![h] = "n_retry"]
                    /\ lock' = NoHandle
            /\ UNCHANGED taken
    /\ UNCHANGED <<gen, symv, arcv, chan, stored, newrx, out, broadcasts, errors,
                   start, parent, forkAt, forkBacklog>>
    /\ UNCHANGED <<callPoll, pois, symg>>

\* what the wrapped iterator's next() does now: the next entry of gen, and
\* None once gen is used up
InnerNext == IF taken < Len(gen) THEN gen[taken + 1] ELSE End

\* variant: on None the guard is kept (leaked) instead of dropped
NextPollKeepsLock(h) ==
    /\ pc[h] = "n_poll"
    /\ polls' = polls + 1
    /\ taken' = IF taken < Len(gen) THEN taken + 1 ELSE taken
    /\ IF InnerNext = End
       THEN /\ exhausted' = TRUE
            /\ callPoll' = [callPoll EXCEPT ![h] = Append(@, End)]
            /\ pc' = [pc EXCEPT ![h] = "n_retry"]
            /\ UNCHANGED <<val, out, poisoned, lock>>
       ELSE /\ val' = [val EXCEPT ![h] = InnerNext]
            /\ callPoll' = [callPoll EXCEPT ![h] = Append(@, InnerNext)]
            /\ pc' = [pc EXCEPT ![h] = "n_bcast"]
            /\ UNCHANGED <<lock, exhausted, out, poisoned>>
    /\ UNCHANGED <<gen, symv, arcv, chan, stored, newrx, broadcasts, errors,
                   start, parent, forkAt, forkBacklog, clonePanicked, symg>>

\* produce(): self.inner.next(); on None nothing is broadcast and the guard
\* is dropped at the end of the statement; when the iterator panics the
\* guard is dropped by the unwinding, which poisons the Mutex
NextPoll(h) ==
    /\ pc[h] = "n_poll"
    /\ polls' = polls + 1
    /\ taken' = IF taken < Len(gen) THEN taken + 1 ELSE taken
    /\ IF InnerNext = Panicked
       THEN /\ poisoned' = TRUE
            /\ lock' = NoHandle
            /\ out' = [out EXCEPT ![h] = Append(@, Panicked)]
            /\ callPoll' = [callPoll EXCEPT ![h] = <<>>]
            /\ pc' = [pc EXCEPT ![h] = "idle"]
            /\ UNCHANGED <<val, exhausted>>
       ELSE IF InnerNext = End
       THEN /\ exhausted' = TRUE
            /\ lock' = NoHandle
            /\ callPoll' = [callPoll EXCEPT ![h] = Append(@, End)]
            /\ pc' = [pc EXCEPT ![h] = "n_retry"]
            /\ UNCHANGED <<val, out, poisoned>>
       ELSE /\ val' = [val EXCEPT ![h] = InnerNext]
            /\ callPoll' = [callPoll EXCEPT ![h] = Append(@, InnerNext)]
            /\ pc' = [pc EXCEPT ![h] = "n_bcast"]
            /\ UNCHANGED <<lock, exhausted, out, poisoned>>
    /\ UNCHANGED <<gen, symv, arcv, chan, stored, newrx, broadcasts, errors,
                   start, parent, forkAt, forkBacklog, clonePanicked, symg>>

\* variant: the broadcast reaches every queue but the caller's own
NextBroadcastOthersOnly(h) ==
    /\ pc[h] = "n_bcast"
    /\ LET r == broadcast(chan, val[h])
       IN  /\ chan' = [r.chan EXCEPT ![h] = chan[h]]
           /\ errors' = r.errors
    /\ broadcasts' = Append(broadcasts, val[h])
    /\ val' = [val EXCEPT ![h] = End]
    /\ lock' = NoHandle
    /\ pc' = [pc EXCEPT ![h] = "n_retry"]
    /\ UNCHANGED <<gen, taken, symv, arcv, stored, newrx, out, polls, exhausted,
                   start, parent, forkAt, forkBacklog>>
    /\ UNCHANGED <<callPoll, pois, symg>>

\* produce(): self.sender.broadcast(val).ok(); then the guard is dropped
NextBroadcast(h) ==
    /\ pc[h] = "n_bcast"
    /\ LET r == broadcast(chan, val[h])
       IN  /\ chan' = r.chan
           /\ errors' = r.errors
    /\ broadcasts' = Append(broadcasts, val[h])
    /\ val' = [val EXCEPT ![h] = End]
    /\ lock' = NoHandle
    /\ pc' = [pc EXCEPT ![h] = "n_retry"]
    /\ UNCHANGED <<gen, taken, symv, arcv, stored, newrx, out, polls, exhausted,
                   start, parent, forkAt, forkBacklog>>
    /\ UNCHANGED <<callPoll, pois, symg>>

\* variant: after produce() the call returns None without a second try_recv
NextRetryNoPop(h) ==
    /\ pc[h] = "n_retry"
    /\ out' = [out EXCEPT ![h] = Append(@, End)]
    /\ pc' = [pc EXCEPT ![h] = "idle"]
    /\ UNCHANGED <<gen, taken, symv, arcv, chan, lock, locals, hist>>
    /\ callPoll' = [callPoll EXCEPT ![h] = <<>>]
    /\ UNCHANGED <<pois, symg>>

\* variant: the second receive is a blocking recv()
NextRetryBlocking(h) ==
    /\ pc[h] = "n_retry"
    /\ chan[h] # <<>>
    /\ out' = [out EXCEPT ![h] = Append(@, Head(chan[h]))]
    /\ chan' = [chan EXCEPT ![h] = Tail(@)]
    /\ pc' = [pc EXCEPT ![h] = "idle"]
    /\ UNCHANGED <<gen, taken, symv, arcv, lock, locals, hist>>
    /\ callPoll' = [callPoll EXCEPT ![h] = <<>>]
    /\ UNCHANGED <<pois, symg>>

\* variant: when the second try_recv finds nothing the call goes round
\* again through produce() instead of returning None
NextRetryLoops(h) ==
    /\ pc[h] = "n_retry"
    /\ IF chan[h] # <<>>
       THEN /\ out' = [out EXCEPT ![h] = Append(@, Head(chan[h]))]
            /\ chan' = [chan EXCEPT ![h] = Tail(@)]
            /\ pc' = [pc EXCEPT ![h] = "idle"]
            /\ callPoll' = [callPoll EXCEPT ![h] = <<>>]
       ELSE /\ pc' = [pc EXCEPT ![h] = "n_lock"]
            /\ UNCHANGED <<out, chan, callPoll>>
    /\ UNCHANGED <<gen, taken, symv, arcv, lock, locals, hist>>
    /\ UNCHANGED <<pois, symg>>

\* the second self.receiver.try_recv(): Ok(val) => Some(val), Err(_) => None
NextRetry(h) ==
    /\ pc[h] = "n_retry"
    /\ IF chan[h] # <<>>
       THEN /\ out' = [out EXCEPT ![h] = Append(@, Head(chan[h]))]
            /\ chan' = [chan EXCEPT ![h] = Tail(@)]
       ELSE /\ out' = [out EXCEPT ![h] = Append(@, End)]
            /\ chan' = chan
    /\ pc' = [pc EXCEPT ![h] = "idle"]
    /\ UNCHANGED <<gen, taken, symv, arcv, lock, locals, hist>>
    /\ callPoll' = [callPoll EXCEPT ![h] = <<>>]
    /\ UNCHANGED <<pois, symg>>

\* ----------------------------------------------------- Clonable::clone
\* number of clone() calls that have started and not yet allocated a channel
PendingClones == Cardinality({h \in Handles : pc[h] \in {"c_lock", "c_drain"}})

CloneCall(h) ==
    /\ pc[h] = "idle"
    /\ created + PendingClones < MaxHandles
    /\ pc' = [pc EXCEPT ![h] = "c_lock"]
    /\ UNCHANGED <<gen, taken, symv, arcv, chan, lock, locals, out, hist>>
    /\ UNCHANGED <<callPoll, pois, symg>>

\* variant: clone() runs branch_off without waiting for the Mutex
CloneLockNoWait(h) ==
    /\ pc[h] = "c_lock"
    /\ lock' = h
    /\ pc' = [pc EXCEPT ![h] = "c_drain"]
    /\ UNCHANGED <<gen, taken, symv, arcv, chan, locals, out, hist>>
    /\ UNCHANGED <<callPoll, pois, symg>>

\* self.owner.lock().unwrap(); panics when the Mutex is poisoned
CloneLock(h) ==
    /\ pc[h] = "c_lock"
    /\ lock = NoHandle
    /\ IF poisoned
       THEN /\ clonePanicked' = [clonePanicked EXCEPT ![h] = TRUE]
            /\ pc' = [pc EXCEPT ![h] = "idle"]
            /\ lock' = lock
       ELSE /\ lock' = h
            /\ pc' = [pc EXCEPT ![h] = "c_drain"]
            /\ clonePanicked' = clonePanicked
    /\ UNCHANGED <<gen, taken, symv, arcv, chan, locals, out, hist>>
    /\ UNCHANGED <<callPoll, poisoned, symg>>

\* variant: the drained items are stored but not sent to new_sender
CloneDrainNoCopy(h) ==
    /\ pc[h] = "c_drain"
    /\ LET s == get_and_add_one(counter)
           n == created + 1
       IN  /\ ~s.panic /\ ~s.overflow
           /\ counter' = s.ctr
           /\ created' = n
           /\ id' = [id EXCEPT ![n] = s.out]
           /\ newrx' = [newrx EXCEPT ![h] = n]
           /\ stored' = [stored EXCEPT ![h] = chan[h]]
           /\ chan' = [chan EXCEPT ![n] = <<>>, ![h] = <<>>]
           /\ pc' = [pc EXCEPT ![h] = "c_restore", ![n] = "building"]
           /\ start' = [start EXCEPT ![n] = start[h] + Len(ElemsOf(out[h]))]
           /\ parent' = [parent EXCEPT ![n] = h]
           /\ forkAt' = [forkAt EXCEPT ![n] = Len(ElemsOf(out[h]))]
           /\ forkBacklog' = [forkBacklog EXCEPT ![n] = chan[h]]
           /\ issued' = Append(issued, s.out)
    /\ UNCHANGED <<gen, taken, senders, arcv, lock, val, out, broadcasts, polls,
                   exhausted, errors>>
    /\ UNCHANGED <<callPoll, pois, symPc, symLock, symPoisoned>>

\* variant: one try_recv in place of the try_iter loop, so only the first
\* buffered item is moved
CloneDrainFirstOnly(h) ==
    /\ pc[h] = "c_drain"
    /\ LET s == get_and_add_one(counter)
           n == created + 1
           first == IF chan[h] = <<>> THEN <<>> ELSE <<Head(chan[h])>>
           rest == IF chan[h] = <<>> THEN <<>> ELSE Tail(chan[h])
       IN  /\ ~s.panic /\ ~s.overflow
           /\ counter' = s.ctr
           /\ created' = n
           /\ id' = [id EXCEPT ![n] = s.out]
           /\ newrx' = [newrx EXCEPT ![h] = n]
           /\ stored' = [stored EXCEPT ![h] = first]
           /\ chan' = [chan EXCEPT ![n] = first, ![h] = rest]
           /\ pc' = [pc EXCEPT ![h] = "c_restore", ![n] = "building"]
           /\ start' = [start EXCEPT ![n] = start[h] + Len(ElemsOf(out[h]))]
           /\ parent' = [parent EXCEPT ![n] = h]
           /\ forkAt' = [forkAt EXCEPT ![n] = Len(ElemsOf(out[h]))]
           /\ forkBacklog' = [forkBacklog EXCEPT ![n] = chan[h]]
           /\ issued' = Append(issued, s.out)
    /\ UNCHANGED <<gen, taken, senders, arcv, lock, val, out, broadcasts, polls,
                   exhausted, errors>>
    /\ UNCHANGED <<callPoll, pois, symPc, symLock, symPoisoned>>

\* branch_off, first half: mpsc::channel(), Symbol::new(), and the try_iter
\* loop moving every buffered item of prev into stored_items and new_sender
CloneDrain(h) ==
    /\ pc[h] = "c_drain"
    /\ LET s == get_and_add_one(counter)
           n == created + 1
       IN  /\ ~s.panic /\ ~s.overflow
           /\ counter' = s.ctr
           /\ created' = n
           /\ id' = [id EXCEPT ![n] = s.out]
           /\ newrx' = [newrx EXCEPT ![h] = n]
           /\ stored' = [stored EXCEPT ![h] = chan[h]]
           /\ chan' = [chan EXCEPT ![n] = chan[h], ![h] = <<>>]
           /\ pc' = [pc EXCEPT ![h] = "c_restore", ![n] = "building"]
           /\ start' = [start EXCEPT ![n] = start[h] + Len(ElemsOf(out[h]))]
           /\ parent' = [parent EXCEPT ![n] = h]
           /\ forkAt' = [forkAt EXCEPT ![n] = Len(ElemsOf(out[h]))]
           /\ forkBacklog' = [forkBacklog EXCEPT ![n] = chan[h]]
           /\ issued' = Append(issued, s.out)
    /\ UNCHANGED <<gen, taken, senders, arcv, lock, val, out, broadcasts, polls,
                   exhausted, errors>>
    /\ UNCHANGED <<callPoll, pois, symPc, symLock, symPoisoned>>

\* variant: the stored items are not sent back to prev_sender
CloneRestoreNoResend(h) ==
    /\ pc[h] = "c_restore"
    /\ senders[id[h]] # NoHandle
    /\ senders' = [senders EXCEPT ![id[newrx[h]]] = newrx[h]]
    /\ stored' = [stored EXCEPT ![h] = <<>>]
    /\ lock' = NoHandle
    /\ pc' = [pc EXCEPT ![h] = "c_ret"]
    /\ UNCHANGED <<gen, taken, counter, id, created, arcv, chan, val, newrx, out, hist>>
    /\ UNCHANGED <<callPoll, pois, symg>>

RECURSIVE Reversed(_)
Reversed(q) == IF q = <<>> THEN <<>> ELSE Append(Reversed(Tail(q)), Head(q))

\* variant: the stored items are sent back last first (stored_items.pop())
CloneRestoreReversed(h) ==
    /\ pc[h] = "c_restore"
    /\ senders[id[h]] # NoHandle
    /\ LET p == senders[id[h]]
       IN  chan' = [chan EXCEPT ![p] = IF p \in RxAlive
                                       THEN @ \o Reversed(stored[h]) ELSE @]
    /\ senders' = [senders EXCEPT ![id[newrx[h]]] = newrx[h]]
    /\ stored' = [stored EXCEPT ![h] = <<>>]
    /\ lock' = NoHandle
    /\ pc' = [pc EXCEPT ![h] = "c_ret"]
    /\ UNCHANGED <<gen, taken, counter, id, created, arcv, val, newrx, out, hist>>
    /\ UNCHANGED <<callPoll, pois, symg>>

\* branch_off, second half: the stored items are sent back through
\* senders[prev.id], the new sender is inserted; then the guard is dropped
CloneRestore(h) ==
    /\ pc[h] = "c_restore"
    /\ senders[id[h]] # NoHandle
    /\ LET p == senders[id[h]]
       IN  chan' = [chan EXCEPT ![p] = IF p \in RxAlive THEN @ \o stored[h] ELSE @]
    /\ senders' = [senders EXCEPT ![id[newrx[h]]] = newrx[h]]
    /\ stored' = [stored EXCEPT ![h] = <<>>]
    /\ lock' = NoHandle
    /\ pc' = [pc EXCEPT ![h] = "c_ret"]
    /\ UNCHANGED <<gen, taken, counter, id, created, arcv, val, newrx, out, hist>>
    /\ UNCHANGED <<callPoll, pois, symg>>

\* Arc::clone(&self.owner) and the construction of the new Clonable
CloneReturn(h) ==
    /\ pc[h] = "c_ret"
    /\ strong' = strong + 1
    /\ pc' = [pc EXCEPT ![h] = "idle", ![newrx[h]] = "idle"]
    /\ newrx' = [newrx EXCEPT ![h] = NoHandle]
    /\ UNCHANGED <<gen, taken, symv, ownerAlive, chan, lock, val, stored, out, hist>>
    /\ UNCHANGED <<callPoll, pois, symg>>

\* variant: dropping any handle drops the owner, whatever the strong count
DropDestroysOwner(h) ==
    /\ pc[h] = "idle"
    /\ pc' = [pc EXCEPT ![h] = "dead"]
    /\ strong' = strong - 1
    /\ ownerAlive' = FALSE
    /\ senders' = [k \in SymbolSet |-> NoHandle]
    /\ chan' = [chan EXCEPT ![h] = <<>>]
    /\ UNCHANGED <<gen, taken, counter, id, created, lock, locals, out, hist>>
    /\ UNCHANGED <<callPoll, pois, symg>>

\* variant: dropping a handle also removes its sender from the Bus
DropUnregisters(h) ==
    /\ pc[h] = "idle"
    /\ pc' = [pc EXCEPT ![h] = "dead"]
    /\ strong' = strong - 1
    /\ ownerAlive' = (strong - 1 > 0)
    /\ senders' = IF strong - 1 > 0 THEN [senders EXCEPT ![id[h]] = NoHandle]
                  ELSE [k \in SymbolSet |-> NoHandle]
    /\ chan' = [chan EXCEPT ![h] = <<>>]
    /\ UNCHANGED <<gen, taken, counter, id, created, lock, locals, out, hist>>
    /\ UNCHANGED <<callPoll, pois, symg>>

\* ------------------------------------------------------ drop(Clonable)
\* the Arc is released (the owner, with the iterator and every sender, is
\* dropped with the last one), then the receiver and what it still buffers
Drop(h) ==
    /\ pc[h] = "idle"
    /\ pc' = [pc EXCEPT ![h] = "dead"]
    /\ strong' = strong - 1
    /\ ownerAlive' = (strong - 1 > 0)
    /\ senders' = IF strong - 1 > 0 THEN senders
                  ELSE [k \in SymbolSet |-> NoHandle]
    /\ chan' = [chan EXCEPT ![h] = <<>>]
    /\ UNCHANGED <<gen, taken, counter, id, created, lock, locals, out, hist>>
    /\ UNCHANGED <<callPoll, pois, symg>>

Next ==
    \E h \in Handles :
        \/ NextTry(h)
        \/ NextLock(h)
        \/ NextPoll(h)
        \/ NextBroadcast(h)
        \/ NextRetry(h)
        \/ CloneCall(h)
        \/ CloneLock(h)
        \/ CloneDrain(h)
        \/ CloneRestore(h)
        \/ CloneReturn(h)
        \/ Drop(h)

Spec == Init /\ [][Next]_vars

\* --------------------------------------------- iterators that are not fused
\* n items with one None before item g: an iterator that answers None and
\* later Some again, which the Iterator trait allows
UnfusedScript(n, g) ==
    [i \in 1..(n + 1) |-> IF i < g THEN i ELSE IF i = g THEN End ELSE i - 1]

InitUnfused ==
    /\ gen \in UNION {{UnfusedScript(n, g) : g \in 1..n} : n \in 1..MaxN}
    /\ InitRest

SpecUnfused == InitUnfused /\ [][Next]_vars

\* ------------------------------------------------ iterators that panic
\* n items and a next() that panics when asked for entry g
PanicScript(n, g) ==
    [i \in 1..(n + 1) |-> IF i < g THEN i ELSE IF i = g THEN Panicked ELSE i - 1]

InitPanic ==
    /\ gen \in UNION {{PanicScript(n, g) : g \in 1..(n + 1)} : n \in 0..MaxN}
    /\ InitRest

SpecPanic == InitPanic /\ [][Next]_vars

\* ------------------------------------------- calls that do not overlap
\* no handle other than h is inside a call
Alone(h) ==
    \A g \in Handles \ {h} : pc[g] \in {"none", "building", "idle", "dead"}

\* one thread owns every handle: a call runs to its end before the next begins
NextSeq ==
    \E h \in Handles :
        \/ Alone(h) /\ NextTry(h)
        \/ Alone(h) /\ NextLock(h)
        \/ Alone(h) /\ NextPoll(h)
        \/ Alone(h) /\ NextBroadcast(h)
        \/ Alone(h) /\ NextRetry(h)
        \/ Alone(h) /\ CloneCall(h)
        \/ Alone(h) /\ CloneLock(h)
        \/ Alone(h) /\ CloneDrain(h)
        \/ Alone(h) /\ CloneRestore(h)
        \/ Alone(h) /\ CloneReturn(h)
        \/ Alone(h) /\ Drop(h)

SpecSeq == Init /\ [][NextSeq]_vars

\* ------------------------------------------------------ fair scheduling
\* the steps of a call of h that need nothing from another thread
Running(h) ==
    \/ NextPoll(h)
    \/ NextBroadcast(h)
    \/ NextRetry(h)
    \/ CloneDrain(h)
    \/ CloneRestore(h)
    \/ CloneReturn(h)

\* the steps of h that acquire the Mutex
Acquire(h) == NextLock(h) \/ CloneLock(h)

\* every thread inside a call keeps being scheduled, and a thread waiting
\* for the Mutex gets it if the Mutex is free again and again
SpecFair ==
    /\ Spec
    /\ \A h \in Handles : WF_vars(Running(h)) /\ SF_vars(Acquire(h))

\* ------------------------------------------------------- Symbol::new
\* everything of the Clonable side
clonv == <<gen, taken, senders, chan, id, created, strong, ownerAlive, lock, pc,
           val, stored, newrx, out, broadcasts, polls, exhausted, errors, start,
           parent, forkAt, forkBacklog, callPoll, poisoned, clonePanicked>>

\* a thread calls Symbol::new()
SymCall(c) ==
    /\ symPc[c] = "idle"
    /\ symPc' = [symPc EXCEPT ![c] = "s_lock"]
    /\ UNCHANGED <<clonv, counter, symLock, symPoisoned, issued>>

\* GLOBAL_SYMBOL_COUNTER.lock().unwrap()
SymLock(c) ==
    /\ symPc[c] = "s_lock"
    /\ symLock = 0
    /\ IF symPoisoned
       THEN /\ symPc' = [symPc EXCEPT ![c] = "panicked"]
            /\ symLock' = symLock
       ELSE /\ symPc' = [symPc EXCEPT ![c] = "s_update"]
            /\ symLock' = c
    /\ UNCHANGED <<clonv, counter, symPoisoned, issued>>

\* variant: the closure hands the unchanged counter back to Cell::update
SymUpdateNoStore(c) ==
    /\ symPc[c] = "s_update"
    /\ LET r == get_and_add_one(counter)
       IN  /\ ~r.panic /\ ~r.overflow
           /\ issued' = Append(issued, r.out)
           /\ symPc' = [symPc EXCEPT ![c] = "idle"]
           /\ symLock' = 0
    /\ UNCHANGED <<clonv, counter, symPoisoned>>

\* .update(|mut elm| { output = elm.get_and_add_one(); elm }); Symbol(output).
\* A panic inside the closure leaves the Cell as it was and poisons the
\* Mutex; dbg chooses whether the build checks arithmetic overflow
SymUpdate(c) ==
    /\ symPc[c] = "s_update"
    /\ \E dbg \in BOOLEAN :
        LET r == get_and_add_one(counter)
        IN  IF r.panic \/ (r.overflow /\ dbg)
            THEN /\ symPoisoned' = TRUE
                 /\ symPc' = [symPc EXCEPT ![c] = "panicked"]
                 /\ UNCHANGED <<counter, issued>>
            ELSE /\ counter' = r.ctr
                 /\ issued' = Append(issued, r.out)
                 /\ symPc' = [symPc EXCEPT ![c] = "idle"]
                 /\ UNCHANGED symPoisoned
    /\ symLock' = 0
    /\ UNCHANGED clonv

NextSym ==
    \E c \in Callers :
        \/ SymCall(c)
        \/ SymLock(c)
        \/ SymUpdate(c)

\* threads allocating Symbols in a process that has wrapped one (empty) iterator
InitSym ==
    /\ gen = <<>>
    /\ InitRest

SpecSym == InitSym /\ [][NextSym]_vars

\* ============================================================== claims
\* what the i-th next() call of handle h must return: the item at the
\* handle's starting position plus i, or None past the end of the iterator
Expected(h, i) == IF start[h] + i <= Len(gen) THEN gen[start[h] + i] ELSE End

\* the items handle h has yielded so far
Yielded(h) == ElemsOf(out[h])

\* C1: while the handle returned by clonable() is the only handle ever made,
\* its i-th next() call returns item i of the iterator for i <= n and None
\* for call n+1 and every later call.
C1_SoleHandleYieldsAllThenEnd ==
    created = 1 =>
        \A i \in 1..Len(out[1]) :
            out[1][i] = IF i <= Len(gen) THEN gen[i] ELSE End

\* a sole handle has returned all n >= 1 items and then None twice
C1_Witness ==
    /\ created = 1
    /\ Len(gen) = MaxN
    /\ Len(out[1]) = Len(gen) + 2

\* C2: a handle cloned from a handle standing at position k (k items
\* consumed, k = 0 included) yields items k+1..n in order and then None; it
\* never yields one of the first k items.
C2_CloneYieldsRemainder ==
    \A g \in Handles :
        parent[g] # NoHandle =>
            \A i \in 1..Len(out[g]) : out[g][i] = Expected(g, i)

\* a handle cloned at position k >= 1, with an unread backlog at the clone,
\* has yielded the rest of the iterator and then None
C2_Witness ==
    \E g \in Handles :
        /\ parent[g] # NoHandle
        /\ start[g] >= 1
        /\ forkBacklog[g] # <<>>
        /\ Len(Yielded(g)) = Len(gen) - start[g]
        /\ Len(out[g]) = Len(Yielded(g)) + 1

\* C3: a handle that has been cloned yields, after the clone as before it,
\* the items of the iterator from its own starting position in order, each
\* once, and None only past the end: the sequence it yields with no clone.
C3_CloneLeavesSourceUndisturbed ==
    \A h \in Handles :
        (\E g \in Handles : parent[g] = h) =>
            \A i \in 1..Len(out[h]) : out[h][i] = Expected(h, i)

\* a handle cloned while holding an unread backlog has since yielded that
\* backlog, the items after it and None
C3_Witness ==
    \E g \in Handles :
        /\ parent[g] # NoHandle
        /\ forkBacklog[g] # <<>>
        /\ Len(Yielded(parent[g])) = Len(gen) - start[parent[g]]
        /\ Len(Yielded(parent[g])) > forkAt[g] + Len(forkBacklog[g])
        /\ Len(out[parent[g]]) > Len(Yielded(parent[g]))

\* the items a clone's source has yielded since the clone
SinceFork(g) ==
    SubSeq(Yielded(parent[g]), forkAt[g] + 1, Len(Yielded(parent[g])))

\* C4: under every interleaving, when a handle with m unread items is
\* cloned, the source's next m items and the clone's first m items are those
\* m items in order, the two go on yielding the same items, and whatever is
\* yielded or buffered since the clone is the same for both (nothing is
\* delivered to only one of the two queues).
C4_CloneSharesBacklogAndFuture ==
    \A g \in Handles :
        parent[g] # NoHandle =>
            LET s == parent[g]
                A == SinceFork(g)
                B == Yielded(g)
                m == Len(forkBacklog[g])
            IN  /\ \A i \in 1..Len(A) : i <= m => A[i] = forkBacklog[g][i]
                /\ \A i \in 1..Len(B) : i <= m => B[i] = forkBacklog[g][i]
                /\ \A i \in 1..Len(A) : i <= Len(B) => A[i] = B[i]
                /\ ( /\ s \in RxAlive /\ g \in RxAlive
                     /\ pc[s] # "c_restore" /\ pc[g] # "c_restore" )
                   => A \o chan[s] = B \o chan[g]

\* a handle was cloned with m >= 1 unread items while a third handle was
\* live; source and clone have both yielded those m items and a later one
C4_Witness ==
    \E g \in Handles :
        /\ parent[g] # NoHandle
        /\ Len(forkBacklog[g]) >= 1
        /\ Len(SinceFork(g)) > Len(forkBacklog[g])
        /\ Len(Yielded(g)) > Len(forkBacklog[g])

\* C5: the values broadcast so far, in broadcast order, are a prefix of the
\* iterator's items: everything inner.next() has yielded has been broadcast
\* once, in order, except the one item a running produce() is holding.
C5_BroadcastsArePrefixOfGenerator ==
    /\ broadcasts = SubSeq(gen, 1, Len(broadcasts))
    /\ Len(broadcasts) = taken - Cardinality({h \in Handles : pc[h] = "n_bcast"})

\* the whole iterator has been broadcast, by different handles, with a
\* clone made in between
C5_Witness ==
    /\ Len(gen) = MaxN
    /\ broadcasts = gen
    /\ created = MaxHandles
    /\ \E g \in Handles : parent[g] # NoHandle /\ start[g] = 1

\* a thread that holds the owner Mutex: inside produce() or branch_off
InCritical(h) == pc[h] \in {"n_poll", "n_bcast", "c_drain", "c_restore"}

\* C6: at most one thread is inside produce() (poll plus broadcast) or
\* branch_off (drain and restore) and it is the holder of the Mutex; while a
\* branch_off runs, no step polls the iterator or broadcasts.
C6_ProducerMutualExclusion ==
    /\ [](/\ Cardinality({h \in Handles : InCritical(h)}) <= 1
          /\ \A h \in Handles : InCritical(h) => lock = h)
    /\ [][(\E h \in Handles : pc[h] \in {"c_drain", "c_restore"})
            => (broadcasts' = broadcasts /\ taken' = taken)]_vars

\* a branch_off has drained a non-empty backlog and not yet restored it while
\* another handle's next() has missed its queue and asks for the Mutex
C6_Witness ==
    \E h, g \in Handles :
        /\ pc[h] = "c_restore"
        /\ stored[h] # <<>>
        /\ pc[g] = "n_lock"

\* a next() call that has started and not returned
InNext(h) == pc[h] \in {"n_lock", "n_poll", "n_bcast", "n_retry"}

\* the next step of a running next() call
NextStep(h) == NextLock(h) \/ NextPoll(h) \/ NextBroadcast(h) \/ NextRetry(h)

\* the next step of the thread holding the Mutex
HolderStep(h) == NextPoll(h) \/ NextBroadcast(h) \/ CloneDrain(h) \/ CloneRestore(h)

\* C7 as stated: a running next() call can always take its next step, it
\* never waits for what another handle is doing.
C7_Orig_NextNeverWaits ==
    \A h \in Handles : InNext(h) => ENABLED NextStep(h)

\* C7 as amended: a running next() call never waits on a queue (both pops
\* return at once, empty or not); the one place it can wait is owner.lock(),
\* and it waits there only while another handle's produce() or branch_off
\* holds the Mutex, which itself can always take its next step.
C7_NextWaitsOnlyForMutex ==
    \A h \in Handles :
        (InNext(h) /\ ~ENABLED NextStep(h)) =>
            /\ pc[h] = "n_lock"
            /\ lock \notin {NoHandle, h}
            /\ InCritical(lock)
            /\ ENABLED HolderStep(lock)

\* a next() call stands at owner.lock() while another handle's produce()
\* holds the Mutex, and a third call is at its second try_recv on an empty queue
C7_Witness ==
    \E h, g \in Handles :
        /\ pc[h] = "n_lock"
        /\ lock \notin {NoHandle, h}
        /\ pc[lock] \in {"n_poll", "n_bcast"}
        /\ pc[g] = "n_retry"
        /\ chan[g] = <<>>

\* C8 as stated: once inner.next() has returned None, no later produce()
\* polls the iterator again.
C8_Orig_NoPollAfterExhaustion ==
    [][exhausted => polls' = polls]_vars

\* C8 as amended: the iterator never yields more than its n items and
\* nothing is broadcast beyond them; once inner.next() has returned None,
\* every later produce() polls the iterator once more, yields nothing and
\* broadcasts nothing.
C8_NoAdvanceBeyondEnd ==
    /\ [](taken <= Len(gen) /\ Len(broadcasts) <= Len(gen))
    /\ [][exhausted =>
            /\ taken' = taken
            /\ broadcasts' = broadcasts
            /\ errors' = errors
            /\ \A h \in Handles : pc'[h] # "n_bcast"]_vars

\* with several handles, produce() has run at least twice on the exhausted
\* iterator of a non-empty sequence
C8_Witness ==
    /\ exhausted
    /\ Len(gen) >= 1
    /\ created >= 2
    /\ polls >= Len(gen) + 2

\* C9: a broadcast delivers the value to the queue of every live handle,
\* whatever handles have been dropped, and the caller's next() goes on to
\* its second try_recv; with a handle dropped, every live handle still
\* yields the iterator's items from its position in order, None only at the end.
C9_DropDoesNotDisturbOthers ==
    /\ [][\A h \in Handles :
            (pc[h] = "n_bcast" /\ pc'[h] # "n_bcast") =>
                /\ pc'[h] = "n_retry"
                /\ \A g \in Live : chan'[g] = Append(chan[g], val[h])]_vars
    /\ []((\E d \in Handles : pc[d] = "dead") =>
            \A h \in Live : \A i \in 1..Len(out[h]) : out[h][i] = Expected(h, i))

\* the broadcast of the last item met the sender of a dropped handle (a
\* send error was collected); one live handle has yielded everything up to
\* it and another live handle holds it in its queue
C9_Witness ==
    /\ errors # <<>>
    /\ Len(gen) = MaxN
    /\ broadcasts = gen
    /\ \E h, g \in Live :
        /\ h # g
        /\ Len(Yielded(h)) = Len(gen) - start[h]
        /\ chan[g] # <<>>
        /\ chan[g][Len(chan[g])] = gen[Len(gen)]

\* C10: the owner (iterator and bus) exists exactly while some handle is
\* live, and the Arc's strong count is the number of live handles.
C10_OwnerLivesWithHandles ==
    /\ ownerAlive <=> Live # {}
    /\ strong = Cardinality(Live)

\* a handle has been dropped while two others stay live: the owner is still
\* there with a strong count of 2
C10_Witness ==
    /\ \E d \in Handles : pc[d] = "dead"
    /\ Cardinality(Live) = 2
    /\ ownerAlive

\* C11: no two calls of Symbol::new() return the same Symbol, whatever the
\* interleaving of the callers, up to and including the call that finds
\* every limb at its maximum.
C11_SymbolsUnique ==
    \A i, j \in 1..Len(issued) : i # j => issued[i] # issued[j]

\* the counter has run up to the state with every limb at its maximum: the
\* carry ran past the last limb, that call panicked, and every Symbol
\* handed out before it is on record
C11_Witness ==
    /\ symPoisoned
    /\ \A p \in Limbs : counter[p] = LimbMax
    /\ Len(issued) = LimbMax

\* the elements of sequence q, as a set
Range(q) == {q[i] : i \in 1..Len(q)}

\* C12: at the step that completes branch_off for source h, the source's
\* queue holds exactly the backlog it held when branch_off began (same
\* elements, same order), the new handle's queue holds the same sequence, and
\* nothing the source had already yielded is in either queue.
C12_ForkPreservesBacklog ==
    [][\A h \in Handles :
          (pc[h] = "c_restore" /\ pc'[h] = "c_ret") =>
             /\ chan'[h] = forkBacklog[newrx[h]]
             /\ chan'[newrx[h]] = forkBacklog[newrx[h]]
             /\ Range(chan'[h]) \cap Range(ElemsOf(out[h])) = {}
             /\ Range(chan'[newrx[h]]) \cap Range(ElemsOf(out[h])) = {}]_vars

\* a fork has just completed on a source that had consumed an element and
\* still had one unread
C12_Witness ==
    \E h \in Handles :
        /\ pc[h] = "c_ret"
        /\ Len(ElemsOf(out[h])) >= 1
        /\ Len(forkBacklog[newrx[h]]) >= 1
        /\ chan[h] = forkBacklog[newrx[h]]
        /\ chan[newrx[h]] = forkBacklog[newrx[h]]

\* C13: a next() call polls the generator at most once.  When the first pop
\* finds an element the call returns it without touching the lock or the
\* generator; the call goes on to the lock only when the first pop found the
\* queue empty; its poll is the first of that call; and the call then returns
\* after exactly one poll with one more pop of at most one element.  The
\* generator is polled by no other step.
C13_OnePollPerCall ==
    [][/\ \A h \in Handles :
            /\ (pc[h] = "idle" /\ Len(out'[h]) = Len(out[h]) + 1) =>
                  /\ chan[h] # <<>>
                  /\ out'[h] = Append(out[h], Head(chan[h]))
                  /\ <<polls', taken', lock'>> = <<polls, taken, lock>>
                  /\ callPoll[h] = <<>> /\ callPoll'[h] = <<>>
            /\ (pc[h] = "idle" /\ pc'[h] = "n_lock") =>
                  chan[h] = <<>> /\ polls' = polls
            /\ (pc[h] = "n_poll" /\ pc'[h] # "n_poll") =>
                  callPoll[h] = <<>> /\ polls' = polls + 1
            /\ (pc[h] = "n_retry" /\ pc'[h] # "n_retry") =>
                  /\ pc'[h] = "idle"
                  /\ Len(callPoll[h]) = 1
                  /\ Len(out'[h]) = Len(out[h]) + 1
                  /\ chan'[h] = IF chan[h] = <<>> THEN <<>> ELSE Tail(chan[h])
       /\ polls' # polls => \E h \in Handles : pc[h] = "n_poll"]_vars

\* handle h missed, polled once and stands before its second pop, while
\* another handle has returned the element of that one poll straight from
\* its queue
C13_Witness ==
    \E h, g \in Handles :
        /\ h # g
        /\ pc[h] = "n_retry"
        /\ Len(callPoll[h]) = 1
        /\ polls = 1
        /\ Len(ElemsOf(out[g])) = 1

\* C14: when a next() call that missed obtains an element from the generator,
\* the broadcast appends that element to the caller's own queue, the queue
\* still holds it when the call pops again, and the call returns an element;
\* a call returns end-of-sequence only if its own poll of the generator
\* answered None.
C14_SelfDelivery ==
    [][\A h \in Handles :
          /\ (pc[h] = "n_bcast" /\ pc'[h] # "n_bcast") =>
                /\ callPoll[h] = <<val[h]>>
                /\ val[h] # End
                /\ chan'[h] = Append(chan[h], val[h])
          /\ (pc[h] = "n_retry" /\ pc'[h] # "n_retry") =>
                /\ callPoll[h] # <<End>> =>
                      /\ callPoll[h][1] \in Range(chan[h])
                      /\ out'[h][Len(out'[h])] # End
                /\ out'[h][Len(out'[h])] = End =>
                      callPoll[h] = <<End>>]_vars

\* handle h missed, another handle's element reached h's queue while h waited
\* for the lock, then h's own poll added a second one: h is about to return
\* an element, though not the one it caused to be produced
C14_Witness ==
    \E h \in Handles :
        /\ pc[h] = "n_retry"
        /\ callPoll[h] # <<End>>
        /\ Len(chan[h]) = 2
        /\ chan[h][2] = callPoll[h][1]

\* the last call on h that has returned, returned end-of-sequence
LastWasEnd(h) == out[h] # <<>> /\ out[h][Len(out[h])] = End

\* C15: end-of-sequence is not latched.  On a handle whose last call
\* returned end-of-sequence the next call takes the usual path: it returns
\* at its first pop only by popping an element that is in its queue, it polls
\* the generator once more even after the generator has answered None, an
\* element the generator then produces is broadcast, and the retry returns
\* the element it finds.
C15_EndNotLatched ==
    [][\A h \in Handles :
          LastWasEnd(h) =>
            /\ (pc[h] = "idle" /\ out'[h] # out[h]) =>
                  chan[h] # <<>> /\ out'[h] = Append(out[h], Head(chan[h]))
            /\ (pc[h] = "n_poll" /\ pc'[h] # "n_poll") =>
                  /\ polls' = polls + 1
                  /\ IF InnerNext # End
                     THEN pc'[h] = "n_bcast" /\ val'[h] = InnerNext
                     ELSE pc'[h] = "n_retry"
            /\ (pc[h] = "n_retry" /\ pc'[h] # "n_retry") =>
                  out'[h] = Append(out[h], IF chan[h] # <<>> THEN Head(chan[h])
                                                              ELSE End)]_vars

\* a handle returned end-of-sequence and, at a later call, an element, and
\* the generator was polled again after it had answered None
C15_Witness ==
    \E h \in Handles : \E i \in 1..(Len(out[h]) - 1) :
        /\ out[h][i] = End
        /\ out[h][i + 1] \notin {End, Panicked}
        /\ exhausted

\* the keys of Bus::senders
Registry == {k \in SymbolSet : senders[k] # NoHandle}

\* the handles that wrap or a completed fork has ever handed out, the dropped
\* ones included
Made == {h \in Handles : pc[h] \notin {"none", "building"}}

\* C16: as long as the producer exists, the registry holds for every handle
\* ever made, dropped or not, one entry under that handle's identifier
\* leading to that handle's queue; identifiers of different handles differ;
\* there are no other entries, so outside the second half of a fork the
\* registry has as many entries as handles were ever created; and no step
\* removes or redirects an entry.
C16_RegistryInvariant ==
    /\ [](ownerAlive =>
            /\ \A h \in Made : senders[id[h]] = h
            /\ \A h, g \in Made : h # g => id[h] # id[g]
            /\ Registry \subseteq {id[h] : h \in 1..created}
            /\ (\A h \in Handles : pc[h] # "c_restore") =>
                  Cardinality(Registry) = created)
    /\ [][ownerAlive' =>
            /\ \A k \in Registry : senders'[k] = senders[k]
            /\ Cardinality({k \in SymbolSet : senders'[k] # NoHandle})
                  >= Cardinality(Registry)]_vars

\* a handle has been dropped while the producer lives on, and its entry is
\* still in the registry next to those of the other handles
C16_Witness ==
    /\ ownerAlive
    /\ \E h \in Handles : pc[h] = "dead" /\ senders[id[h]] = h
    /\ created >= 2
    /\ Cardinality(Registry) = created

\* C17: once a panic inside produce() has poisoned the producer's Mutex,
\* nobody is or gets inside a critical section again: every next() that
\* reaches the lock and every clone() panics there instead of returning, the
\* generator is not polled, nothing is broadcast, no queue grows and no
\* handle is created.
C17_PoisonIsFinal ==
    /\ [](poisoned =>
            /\ lock = NoHandle
            /\ \A h \in Handles :
                  pc[h] \notin {"n_poll", "n_bcast", "c_drain", "c_restore"})
    /\ [][poisoned =>
            /\ poisoned'
            /\ <<taken', polls', broadcasts', created'>> =
                  <<taken, polls, broadcasts, created>>
            /\ \A h \in Handles :
                  /\ Len(chan'[h]) <= Len(chan[h])
                  /\ (pc[h] = "n_lock" /\ pc'[h] # "n_lock") =>
                        pc'[h] = "idle" /\ out'[h] = Append(out[h], Panicked)
                  /\ (pc[h] = "c_lock" /\ pc'[h] # "c_lock") =>
                        pc'[h] = "idle" /\ clonePanicked'[h]]_vars

\* the generator panicked with entries still to come; since then a next()
\* on an empty queue and a clone() have both panicked at the lock
C17_Witness ==
    /\ poisoned
    /\ taken < Len(gen)
    /\ PanicCount >= 2
    /\ \E h \in Handles : clonePanicked[h]

\* C18: whenever the producer lock is free, for every handle whose receiver
\* exists, what the handle has yielded followed by what its queue holds is
\* exactly the stretch of the generator from the handle's starting position
\* to the last element produced; and any two handles, dropped ones included,
\* have yielded the same element at the same absolute position.
C18_PositionInvariant ==
    /\ lock = NoHandle =>
          \A h \in RxAlive :
              Yielded(h) \o chan[h] = SubSeq(gen, start[h] + 1, taken)
    /\ \A h, g \in Handles :
          \A i \in 1..Len(Yielded(h)) : \A j \in 1..Len(Yielded(g)) :
              start[h] + i = start[g] + j => Yielded(h)[i] = Yielded(g)[j]

\* with the lock free, a clone that started at position >= 1 has yielded an
\* element that its source still holds unread
C18_Witness ==
    \E h, g \in RxAlive :
        /\ lock = NoHandle
        /\ parent[g] = h
        /\ start[g] >= 1
        /\ Yielded(g) # <<>>
        /\ chan[h] # <<>>
        /\ Yielded(h) # <<>>

\* no call is in progress
Quiet == \A h \in Handles : pc[h] \in {"none", "idle", "dead"}

\* handle h is inside clone()
InClone(h) == pc[h] \in {"c_lock", "c_drain", "c_restore", "c_ret"}

RECURSIVE MaxPosUpTo(_)
\* the largest absolute position any of the handles 1..k has consumed
MaxPosUpTo(k) ==
    IF k = 0 THEN 0
    ELSE LET m == MaxPosUpTo(k - 1)
             p == IF Yielded(k) = <<>> THEN 0 ELSE start[k] + Len(Yielded(k))
         IN  IF p > m THEN p ELSE m

\* C19: when calls do not overlap, no step of a clone() polls the generator,
\* broadcasts, or changes what any handle has yielded or the queue of any
\* handle other than the source (emptied and refilled) and the new one; at
\* the end of clone() the source's queue is what it was; the generator is
\* polled only by a next() call that found its queue empty and has not
\* polled yet; and between calls the number of elements pulled from the
\* generator is the largest position any handle has consumed.
C19_ForkFrameAndLaziness ==
    /\ [][/\ \A h \in Handles :
               (InClone(h) \/ pc'[h] = "c_lock") =>
                  /\ <<polls', taken', broadcasts', out'>> =
                        <<polls, taken, broadcasts, out>>
                  /\ \A g \in Handles \ {h, newrx[h], newrx'[h]} :
                        chan'[g] = chan[g]
          /\ (polls' # polls \/ taken' # taken) =>
                \E h \in Handles :
                    /\ pc[h] = "n_poll" /\ callPoll[h] = <<>>
                    /\ polls' = polls + 1]_vars
    /\ [](\A h \in Handles :
              pc[h] = "c_ret" =>
                  chan[h] = forkBacklog[newrx[h]] /\ chan[newrx[h]] = chan[h])
    /\ [](Quiet => taken = MaxPosUpTo(created))

\* between calls: two elements have been pulled, a handle forked at a
\* position >= 1 exists, and some handle lags behind with an unread element
C19_Witness ==
    /\ Quiet
    /\ taken >= 2
    /\ \E g \in Handles : parent[g] # NoHandle /\ start[g] >= 1
    /\ \E h \in RxAlive : chan[h] # <<>>

\* handle h is inside next() or clone()
InCall(h) == InNext(h) \/ InClone(h)

\* handle h stands at owner.lock() while the Mutex is held
Blocked(h) == pc[h] \in {"n_lock", "c_lock"} /\ lock # NoHandle

TypeOK ==
    /\ taken \in 0..Len(gen)
    /\ created \in 1..MaxHandles
    /\ lock \in Handles \cup {NoHandle}
    /\ polls <= MaxPolls
    /\ poisoned \in BOOLEAN
    /\ \A h \in Handles : Len(callPoll[h]) <= 1
    /\ symLock \in Callers \cup {0}
    /\ Len(issued) <= LimbMax
====
